---------------------------- MODULE Spec2Model ----------------------------
(***************************************************************************)
(* Model of routes/index.js: the Pangram schema with its four validators,  *)
(* the syllable lookup, and the routes '/', '/create' and '/about'.        *)
(*                                                                         *)
(* JavaScript strings are sequences of one-character strings.  The value   *)
(* undefined is the one-element tuple Undefined, which is no string.       *)
(*                                                                         *)
(* Library behaviour the routes rest on (Mongoose 3.x, unirest, Express):  *)
(*  - save() validates every path; the paths are validated independently  *)
(*    and each path runs its validators in registration order (required,  *)
(*    then the ones added with .validate());                               *)
(*  - a path reports once: with its first failing validator's message, or  *)
(*    with success when all its validators have passed; later results of   *)
(*    that path are dropped; err.errors holds one entry per failed path;   *)
(*  - once a validator of a path has failed, the path's later validators   *)
(*    still run in Mongoose 3.x and are skipped in Mongoose 4.x; the       *)
(*    model allows both (the parameter skip of Create);                    *)
(*  - the save callback runs when every path has reported;                 *)
(*  - the _id is assigned when the document is constructed;                *)
(*  - an exception thrown in an I/O callback is uncaught and ends the      *)
(*    server process; the database is a separate process.                  *)
(***************************************************************************)
EXTENDS Integers, Sequences, FiniteSets

\* Number of /create requests the model lets in.
MaxRequests == 2

Requests == 1..MaxRequests

Paths == <<"line1_5", "line2_7", "line3_5">>
PathSet == {Paths[i] : i \in 1..Len(Paths)}

Undefined == <<"undefined">>

NaN == -1

-----------------------------------------------------------------------------
(* String helpers *)

\* String.prototype.indexOf for a one-character needle: 0-based, -1 if absent.
indexOf(s, ch) ==
  LET hits == {i \in 1..Len(s) : s[i] = ch}
  IN  IF hits = {} THEN -1
      ELSE (CHOOSE i \in hits : \A j \in hits : i <= j) - 1

UpperCaseChars ==
  <<"A","B","C","D","E","F","G","H","I","J","K","L","M","N","O","P","Q","R","S","T","U","V","W","X","Y","Z">>
LowerCaseChars ==
  <<"a","b","c","d","e","f","g","h","i","j","k","l","m","n","o","p","q","r","s","t","u","v","w","x","y","z">>

\* String.prototype.toLowerCase on the ASCII range.
toLowerCase(s) ==
  [i \in 1..Len(s) |->
     IF indexOf(UpperCaseChars, s[i]) = -1 THEN s[i]
     ELSE LowerCaseChars[indexOf(UpperCaseChars, s[i]) + 1]]

\* (x || ''): undefined and the empty string both give ''.
OrEmpty(v) == IF v = Undefined THEN <<>> ELSE v

\* String concatenation of a value: undefined prints as "undefined".
StringOf(v) ==
  IF v = Undefined THEN <<"u","n","d","e","f","i","n","e","d">> ELSE v

\* Whether needle occurs in hay as a substring.
Contains(hay, needle) ==
  \E i \in 0..(Len(hay) - Len(needle)) :
    \A j \in 1..Len(needle) : hay[i + j] = needle[j]

-----------------------------------------------------------------------------
(* Schema: messages and validators *)

NoError == <<>>

NotAPangram == <<"N","o","t"," ","a"," ","p","a","n","g","r","a","m","!">>

SyllableMessage(path) ==
  CASE path = "line1_5" ->
         <<"L","i","n","e"," ","1"," ","d","o","e","s","n","'","t"," ","h","a","v","e"," ","5"," ","s","y","l","l","a","b","l","e","s",".">>
    [] path = "line2_7" ->
         <<"L","i","n","e"," ","2"," ","d","o","e","s","n","'","t"," ","h","a","v","e"," ","7"," ","s","y","l","l","a","b","l","e","s",".">>
    [] path = "line3_5" ->
         <<"L","i","n","e"," ","3"," ","d","o","e","s","n","'","t"," ","h","a","v","e"," ","5"," ","s","y","l","l","a","b","l","e","s",".">>

PathName(path) ==
  CASE path = "line1_5" -> <<"l","i","n","e","1","_","5">>
    [] path = "line2_7" -> <<"l","i","n","e","2","_","7">>
    [] path = "line3_5" -> <<"l","i","n","e","3","_","5">>

\* The character ` (which a TLA+ string cannot hold).
Backquote == "backquote"

\* Message of the validator that {required: true} installs on a path.
RequiredMessage(path) ==
  <<"P","a","t","h"," ",Backquote>> \o PathName(path) \o
  <<Backquote," ","i","s"," ","r","e","q","u","i","r","e","d",".">>

\* {type: String, required: true}: undefined and '' are both missing.
RequiredOk(value) == value # Undefined /\ Len(value) > 0

required_syllables(path) == IF path = "line2_7" THEN 7 ELSE 5

letters ==
  <<"z","q","x","j","k","v","b","p","y","g","f","w","m","u","c","l","d","r","h","s","n","i","o","a","t","e">>

RECURSIVE PangramLoop(_, _)
PangramLoop(s, i) ==
  IF i >= 26 THEN TRUE
  ELSE IF indexOf(s, letters[i + 1]) = -1 THEN FALSE
  ELSE PangramLoop(s, i + 1)

is_pangram_nolower(doc) ==
  PangramLoop(OrEmpty(doc.line1_5) \o OrEmpty(doc.line2_7) \o OrEmpty(doc.line3_5), 0)

\* The validator registered first on line2_7.
is_pangram(doc) ==
  LET s == toLowerCase(OrEmpty(doc.line1_5) \o OrEmpty(doc.line2_7) \o OrEmpty(doc.line3_5))
  IN  PangramLoop(s, 0)

-----------------------------------------------------------------------------
(* The syllable service's results and parseInt *)

DigitChars == <<"0","1","2","3","4","5","6","7","8","9">>
IsDigit(ch) == indexOf(DigitChars, ch) # -1
IsSpace(ch) == ch = " "

RECURSIVE SkipSpace(_)
SkipSpace(s) == IF s # <<>> /\ IsSpace(Head(s)) THEN SkipSpace(Tail(s)) ELSE s

RECURSIVE DigitsValue(_, _)
DigitsValue(s, acc) ==
  IF s = <<>> \/ ~IsDigit(Head(s)) THEN acc
  ELSE DigitsValue(Tail(s), 10 * acc + indexOf(DigitChars, Head(s)))

\* parseInt: leading white space skipped, the longest decimal prefix read,
\* NaN when there is none (also for undefined, which reads as "undefined").
parseInt(v) ==
  LET s == SkipSpace(StringOf(v))
  IN  IF s = <<>> \/ ~IsDigit(Head(s)) THEN NaN ELSE DigitsValue(s, 0)


SyllablesOkFive(res, required) == parseInt(res.syllables) = 5

\* The callback argument of validate_syllables once the lookup has returned
\* a body: syllables == required_syllables.
SyllablesOk(res, required) == parseInt(res.syllables) = required

\* What unirest hands to .end(): result.body is undefined when the call
\* failed, else the parsed JSON object, whose syllables field is a string
\* (or is absent).
NoBody == [hasBody |-> FALSE, syllables |-> Undefined]
Body(syl) == [hasBody |-> TRUE, syllables |-> syl]
Results == {NoBody, Body(Undefined), Body(<<"5">>), Body(<<"7">>)}

-----------------------------------------------------------------------------
(* Query strings *)

\* String.prototype.split for a one-character separator.
Split(s, sep) ==
  LET seps   == {i \in 1..Len(s) : s[i] = sep}
      n      == Cardinality(seps) + 1
      Pos(k) == IF k = 0 THEN 0
                ELSE IF k = n THEN Len(s) + 1
                ELSE CHOOSE i \in seps : Cardinality({j \in seps : j < i}) = k - 1
  IN  [k \in 1..n |-> SubSeq(s, Pos(k - 1) + 1, Pos(k) - 1)]

\* The part of a URL after its first '?'.
QueryString(url) ==
  IF indexOf(url, "?") = -1 THEN <<>>
  ELSE SubSeq(url, indexOf(url, "?") + 2, Len(url))

\* Query-string decoding of a value: '+' reads as a space.
Decode(v) == [i \in 1..Len(v) |-> IF v[i] = "+" THEN " " ELSE v[i]]

KeyOf(part) ==
  IF indexOf(part, "=") = -1 THEN part ELSE SubSeq(part, 1, indexOf(part, "="))
ValueOf(part) ==
  IF indexOf(part, "=") = -1 THEN <<>>
  ELSE SubSeq(part, indexOf(part, "=") + 2, Len(part))

\* request.query[key] for the given URL: the pairs are separated by '&',
\* key and value by the first '='; undefined when the key is absent.
QueryParam(url, key) ==
  LET parts == Split(QueryString(url), "&")
      hits  == {i \in 1..Len(parts) : parts[i] # <<>> /\ KeyOf(parts[i]) = key}
  IN  IF hits = {} THEN Undefined
      ELSE Decode(ValueOf(parts[CHOOSE i \in hits : \A j \in hits : i <= j]))

-----------------------------------------------------------------------------
(* Inputs *)

\* All 26 letters, six of them (M J T V P D) only in upper case.
SubmissionA ==
  [line1_5 |-> <<"M","r"," ","J","o","c","k"," ","T","V">>,
   line2_7 |-> <<"q","u","i","z"," ","P","h","D"," ","b","a","g","s">>,
   line3_5 |-> <<"f","e","w"," ","l","y","n","x">>]

\* Not a pangram; line 1 holds an '&'.
SubmissionB ==
  [line1_5 |-> <<"J","a","c","k"," ","&"," ","J","i","l","l">>,
   line2_7 |-> <<"w","e","n","t"," ","u","p"," ","a"," ","h","i","l","l">>,
   line3_5 |-> <<"f","o","r"," ","w","a","t","e","r">>]

\* All 26 letters in lines 1 and 2; line 3 is not submitted.
SubmissionC ==
  [line1_5 |-> <<"M","r"," ","J","o","c","k"," ","T","V"," ","q","u","i","z">>,
   line2_7 |-> <<"P","h","D"," ","b","a","g","s"," ","f","e","w"," ","l","y","n","x">>,
   line3_5 |-> Undefined]

Submissions == {SubmissionA, SubmissionB, SubmissionC}

NoQuery == [line1_5 |-> Undefined, line2_7 |-> Undefined, line3_5 |-> Undefined]


-----------------------------------------------------------------------------
(* State *)

VARIABLES
  query,      \* request.query of each /create request (NoQuery before it arrives)
  pc,         \* where each /create request stands
  lookup,     \* per request and path: the syllable lookup and its result
  sent,       \* per request and path: how many lookups were started
  errors,     \* per request: err.errors, the message of each failed path
  total,      \* per request: paths that have not reported yet
  responses,  \* per request: the redirects issued, in order
  store,      \* the pangrams collection
  view,       \* the page rendered last
  crashed     \* the server process has ended on an uncaught exception

vars == <<query, pc, lookup, sent, errors, total, responses, store, view, crashed>>

NoView ==
  [page |-> "none", via |-> 0, error |-> Undefined, line1_5 |-> Undefined,
   line2_7 |-> Undefined, line3_5 |-> Undefined, pangrams |-> <<>>]

Init ==
  /\ query = [r \in Requests |-> NoQuery]
  /\ pc = [r \in Requests |-> "idle"]
  /\ lookup = [r \in Requests |-> [p \in PathSet |-> [state |-> "none", result |-> NoBody]]]
  /\ sent = [r \in Requests |-> [p \in PathSet |-> 0]]
  /\ errors = [r \in Requests |-> [p \in PathSet |-> NoError]]
  /\ total = [r \in Requests |-> 0]
  /\ responses = [r \in Requests |-> <<>>]
  /\ store = {}
  /\ view = NoView
  /\ crashed = FALSE

-----------------------------------------------------------------------------
(* Validation *)

\* The validators of a path that answer at once, in registration order:
\* required on every path, then the pangram check on line2_7.  The result
\* is the path's error so far (NoError if none failed).
SyncError(doc, path) ==
  IF ~RequiredOk(doc[path]) THEN RequiredMessage(path)
  ELSE IF path = "line2_7" /\ ~is_pangram(doc) THEN NotAPangram
  ELSE NoError

DispatchFirstOnly(doc, skip) == {"line1_5"}

\* The paths whose syllable validator runs when save() validates the
\* document: each of the three validators calls validate_syllables, which
\* starts its request at once.  With skip, a path whose earlier validator
\* has failed does not run it.
Dispatch(doc, skip) ==
  IF skip THEN {p \in PathSet : SyncError(doc, p) = NoError} ELSE PathSet

\* errors.join(' ') over the messages pushed for line1_5, line2_7, line3_5.
RECURSIVE Join(_)
Join(msgs) ==
  IF msgs = <<>> THEN <<>>
  ELSE IF Len(msgs) = 1 THEN msgs[1]
  ELSE msgs[1] \o <<" ">> \o Join(Tail(msgs))

ErrorText(errs) ==
  Join(SelectSeq(<<errs["line1_5"], errs["line2_7"], errs["line3_5"]>>,
                 LAMBDA m : m # NoError))

\* The URL of the error redirect.
ErrorRedirect(errs, q) ==
  <<"/","?","e","r","r","o","r","=">> \o ErrorText(errs)
  \o <<"&","l","i","n","e","1","_","5","=">> \o StringOf(q.line1_5)
  \o <<"&","l","i","n","e","2","_","7","=">> \o StringOf(q.line2_7)
  \o <<"&","l","i","n","e","3","_","5","=">> \o StringOf(q.line3_5)

HomeUrl == <<"/">>

\* The callback of pangram.save for request r.  err is "validation" (a
\* ValidationError carrying errs), "other" (an error without .errors) or
\* "none".  Reading err.errors.line1_5 of an error without .errors throws.
SaveCallback(r, err, errs) ==
  IF err = "validation" THEN
    /\ responses' = [responses EXCEPT ![r] = Append(@, ErrorRedirect(errs, query'[r]))]
    /\ pc' = [pc EXCEPT ![r] = "responded"]
    /\ crashed' = crashed
  ELSE IF err = "other" THEN
    /\ responses' = responses
    /\ pc' = [pc EXCEPT ![r] = "dbfailed"]
    /\ crashed' = TRUE
  ELSE
    /\ responses' = [responses EXCEPT ![r] = Append(@, HomeUrl)]
    /\ pc' = [pc EXCEPT ![r] = "responded"]
    /\ crashed' = crashed

\* Every path of request r has reported: the save fails with the collected
\* errors, or the insert is sent to the database.
Complete(r, errs) ==
  IF \E p \in PathSet : errs[p] # NoError
  THEN SaveCallback(r, "validation", errs)
  ELSE /\ pc' = [pc EXCEPT ![r] = "saving"]
       /\ UNCHANGED <<responses, crashed>>

-----------------------------------------------------------------------------
(* Actions *)

\* GET /create with the given query: new Pangram(...) and pangram.save().
\* Requests take their _id in arrival order.
Create(r, q, skip) ==
  /\ ~crashed
  /\ pc[r] = "idle"
  /\ \A o \in Requests : o < r => pc[o] # "idle"
  /\ LET errs == [p \in PathSet |-> SyncError(q, p)]
         left == Cardinality({p \in PathSet : errs[p] = NoError})
     IN  /\ query' = [query EXCEPT ![r] = q]
         /\ errors' = [errors EXCEPT ![r] = errs]
         /\ total' = [total EXCEPT ![r] = left]
         /\ lookup' = [lookup EXCEPT ![r] =
                         [p \in PathSet |->
                            IF p \in Dispatch(q, skip)
                            THEN [state |-> "out", result |-> NoBody]
                            ELSE @[p]]]
         /\ sent' = [sent EXCEPT ![r] =
                         [p \in PathSet |->
                            IF p \in Dispatch(q, skip) THEN @[p] + 1 ELSE @[p]]]
         /\ IF left = 0
            THEN SaveCallback(r, "validation", errs)
            ELSE /\ pc' = [pc EXCEPT ![r] = "validating"]
                 /\ UNCHANGED <<responses, crashed>>
  /\ UNCHANGED <<store, view>>

\* The .end() callback of the lookup for path p of request r, with result res.
LookupReturn(r, p, res) ==
  /\ ~crashed
  /\ lookup[r][p].state = "out"
  /\ lookup' = [lookup EXCEPT ![r][p] = [state |-> "back", result |-> res]]
  /\ UNCHANGED <<query, sent, store, view>>
  /\ IF ~res.hasBody
     THEN \* data is undefined: data.syllables throws
          /\ crashed' = TRUE
          /\ UNCHANGED <<errors, total, pc, responses>>
     ELSE IF errors[r][p] # NoError
     THEN \* the path has already reported its first failure
          UNCHANGED <<errors, total, pc, responses, crashed>>
     ELSE LET ok   == SyllablesOk(res, required_syllables(p))
              errs == IF ok THEN errors[r]
                      ELSE [errors[r] EXCEPT ![p] = SyllableMessage(p)]
          IN  /\ errors' = [errors EXCEPT ![r] = errs]
              /\ total' = [total EXCEPT ![r] = @ - 1]
              /\ IF total[r] - 1 = 0
                 THEN Complete(r, errs)
                 ELSE UNCHANGED <<pc, responses, crashed>>

Record(r) ==
  [id |-> r, line1_5 |-> query[r].line1_5, line2_7 |-> query[r].line2_7,
   line3_5 |-> query[r].line3_5]

InsertReplacing(r) ==
  /\ pc[r] = "saving"
  /\ store' = {Record(r)}
  /\ pc' = [pc EXCEPT ![r] = "inserted"]
  /\ UNCHANGED <<query, lookup, sent, errors, total, responses, view, crashed>>

\* The database executes the insert of request r's document.
Insert(r) ==
  /\ pc[r] = "saving"
  /\ store' = store \cup {Record(r)}
  /\ pc' = [pc EXCEPT ![r] = "inserted"]
  /\ UNCHANGED <<query, lookup, sent, errors, total, responses, view, crashed>>

\* The save callback after the insert was acknowledged.
SaveOk(r) ==
  /\ ~crashed
  /\ pc[r] = "inserted"
  /\ SaveCallback(r, "none", errors[r])
  /\ UNCHANGED <<query, lookup, sent, errors, total, store, view>>

\* The save callback after the database refused or lost the insert.
SaveFailed(r) ==
  /\ ~crashed
  /\ pc[r] = "saving"
  /\ SaveCallback(r, "other", errors[r])
  /\ UNCHANGED <<query, lookup, sent, errors, total, store, view>>

RECURSIVE SortAscending(_)
SortAscending(S) ==
  IF S = {} THEN <<>>
  ELSE LET first == CHOOSE x \in S : \A y \in S : x.id <= y.id
       IN  <<first>> \o SortAscending(S \ {first})

\* Pangram.find().sort({_id: -1}): all records, highest _id first.
RECURSIVE FindSorted(_)
FindSorted(S) ==
  IF S = {} THEN <<>>
  ELSE LET first == CHOOSE x \in S : \A y \in S : x.id >= y.id
       IN  <<first>> \o FindSorted(S \ {first})

\* GET '/' with the given URL; via names the /create request whose redirect
\* led here (0: none).
Home(url, via) ==
  /\ ~crashed
  /\ view' = [page |-> "home", via |-> via,
              error |-> QueryParam(url, <<"e","r","r","o","r">>),
              line1_5 |-> QueryParam(url, PathName("line1_5")),
              line2_7 |-> QueryParam(url, PathName("line2_7")),
              line3_5 |-> QueryParam(url, PathName("line3_5")),
              pangrams |-> FindSorted(store)]
  /\ UNCHANGED <<query, pc, lookup, sent, errors, total, responses, store, crashed>>

\* A client opens the list page directly.
List == Home(HomeUrl, 0)

\* The client of request r follows its redirect.
FollowRedirect(r) ==
  /\ responses[r] # <<>>
  /\ Home(responses[r][1], r)

\* GET /about
About ==
  /\ ~crashed
  /\ view' = [NoView EXCEPT !.page = "about"]
  /\ UNCHANGED <<query, pc, lookup, sent, errors, total, responses, store, crashed>>

Next ==
  \/ \E r \in Requests, q \in Submissions, skip \in BOOLEAN : Create(r, q, skip)
  \/ \E r \in Requests, p \in PathSet, res \in Results : LookupReturn(r, p, res)
  \/ \E r \in Requests : Insert(r)
  \/ \E r \in Requests : SaveOk(r)
  \/ \E r \in Requests : SaveFailed(r)
  \/ \E r \in Requests : FollowRedirect(r)
  \/ List
  \/ About

Spec == Init /\ [][Next]_vars


-----------------------------------------------------------------------------
(* Vocabulary of the properties *)

Range(f) == {f[i] : i \in DOMAIN f}

\* The three lines of a submission or record in one lowercased text, a
\* line that was not submitted counting as empty.
Combined(d) ==
  toLowerCase((IF d.line1_5 = Undefined THEN <<>> ELSE d.line1_5)
              \o (IF d.line2_7 = Undefined THEN <<>> ELSE d.line2_7)
              \o (IF d.line3_5 = Undefined THEN <<>> ELSE d.line3_5))

Alphabet == Range(LowerCaseChars)

CoversAlphabet(d) == \A c \in Alphabet : c \in Range(Combined(d))

LinesOf(d) == [line1_5 |-> d.line1_5, line2_7 |-> d.line2_7, line3_5 |-> d.line3_5]

\* The letter coverage and the validator's verdict of every submission the
\* model draws, tabulated once.
CoverageOf == [d \in Submissions |-> CoversAlphabet(d)]
VerdictOf == [d \in Submissions |-> is_pangram(d)]

AllLetters(d) ==
  IF LinesOf(d) \in Submissions THEN CoverageOf[LinesOf(d)] ELSE CoversAlphabet(d)

LineGiven(d, p) == d[p] # Undefined /\ d[p] # <<>>

AllLinesGiven(d) == \A p \in PathSet : LineGiven(d, p)

Stored(r) == {x \in store : x.id = r}

SameLines(x, d) ==
  x.line1_5 = d.line1_5 /\ x.line2_7 = d.line2_7 /\ x.line3_5 = d.line3_5

Returned(r, p) == lookup[r][p].state = "back"

\* The service answered with a count: a body whose syllables field is a
\* numeral.
IsCount(res) ==
  /\ res.hasBody
  /\ res.syllables # Undefined
  /\ res.syllables # <<>>
  /\ \A i \in 1..Len(res.syllables) : res.syllables[i] \in Range(DigitChars)

\* A failed lookup: no body, no syllables field, or a value that is no number.
FailedLookup(res) == ~IsCount(res)

Accepted(r) ==
  \/ pc[r] \in {"saving", "inserted"}
  \/ Stored(r) # {}
  \/ HomeUrl \in Range(responses[r])

\* The save of request r has failed and its callback has run.
SaveHasFailed(r) ==
  \/ pc[r] = "dbfailed"
  \/ pc[r] = "responded" /\ \E p \in PathSet : errors[r][p] # NoError

ErrorParam(url) == QueryParam(url, <<"e","r","r","o","r">>)

TargetsHome(url) ==
  url = HomeUrl \/ (Len(url) >= 2 /\ url[1] = "/" /\ url[2] = "?")

-----------------------------------------------------------------------------
(* Properties *)

\* C1: a submission whose combined, lowercased lines lack a letter fails
\* validation on line2_7 and is never accepted or stored, whatever the
\* lookups answer; the pangram validator passes exactly when all 26 letters
\* occur.
C1_LetterRule ==
  \A r \in Requests :
    pc[r] # "idle" =>
      /\ VerdictOf[query[r]] <=> AllLetters(query[r])
      /\ ~AllLetters(query[r]) =>
           /\ errors[r]["line2_7"] # NoError
           /\ ~Accepted(r)

\* C1 witness: a submission that lacks a letter got the counts 5, 7, 5 from
\* the service and was answered with the error redirect.
C1_Witness ==
  \E r \in Requests :
    /\ pc[r] = "responded"
    /\ ~AllLetters(query[r])
    /\ \A p \in PathSet :
         Returned(r, p) /\ IsCount(lookup[r][p].result)
         /\ parseInt(lookup[r][p].result.syllables) = required_syllables(p)
    /\ responses[r] # <<>>

\* C2: a submission for which the service reported a count other than the
\* required one (5, 7, 5) for some line has an error on that line and is
\* never accepted or stored, also when it holds all 26 letters.
C2_SyllableRule ==
  \A r \in Requests : \A p \in PathSet :
    ( /\ Returned(r, p)
      /\ IsCount(lookup[r][p].result)
      /\ parseInt(lookup[r][p].result.syllables) # required_syllables(p) )
    => /\ errors[r][p] # NoError
       /\ ~Accepted(r)

\* C2 witness: a submission with all 26 letters and all lines given got the
\* count 7 for line 1 and was answered with the error redirect.
C2_Witness ==
  \E r \in Requests :
    /\ AllLetters(query[r]) /\ AllLinesGiven(query[r])
    /\ Returned(r, "line1_5")
    /\ lookup[r]["line1_5"].result = Body(<<"7">>)
    /\ pc[r] = "responded"
    /\ responses[r] = <<ErrorRedirect(errors[r], query[r])>>

C3_State ==
  /\ \A r \in Requests :
       /\ Cardinality(Stored(r)) <= 1
       /\ \A x \in Stored(r) : SameLines(x, query[r])
       /\ (pc[r] = "inserted" \/ HomeUrl \in Range(responses[r]))
            => Cardinality(Stored(r)) = 1
       /\ pc[r] \in {"idle", "validating", "saving", "dbfailed"} => Stored(r) = {}
  /\ view.page = "home" =>
       \A i, j \in 1..Len(view.pangrams) :
         i < j => view.pangrams[i].id > view.pangrams[j].id

C3_Step ==
  (view' # view /\ view'.page = "home") => Range(view'.pangrams) = store'

\* C3: a submission that passed validation and whose insert the database
\* executed has exactly one record, holding its three lines (none before the
\* insert, never two); every listing rendered afterwards holds every stored
\* record, and every listing is ordered newest-created (highest _id) first.
C3_OneRecordNewestFirst == [](C3_State) /\ [][C3_Step]_vars

\* C3 witness: two submissions in flight at once are both stored and listed,
\* the second one first, while the first one's save callback is still due.
C3_Witness ==
  /\ view.page = "home"
  /\ Len(view.pangrams) = 2
  /\ view.pangrams[1].id = 2
  /\ pc[1] = "inserted"
  /\ pc[2] = "responded"

\* C4 (as claimed): every submission whose save failed, by validation or by
\* any other error, has no record and was answered with exactly one redirect
\* to '/' whose error parameter is a non-empty message.
C4_FailedSaveRedirects ==
  \A r \in Requests :
    SaveHasFailed(r) =>
      /\ Stored(r) = {}
      /\ Len(responses[r]) = 1
      /\ TargetsHome(responses[r][1])
      /\ ErrorParam(responses[r][1]) # Undefined
      /\ ErrorParam(responses[r][1]) # <<>>

\* C5 (as claimed): for a submission with all lines given that was answered
\* with the error redirect, the error text holds the message of every rule
\* that failed: the pangram rule and each line's syllable rule.
C5_EveryFailingRuleReported ==
  \A r \in Requests :
    (pc[r] = "responded" /\ AllLinesGiven(query[r]) /\ responses[r] # <<>>
       /\ responses[r][1] # HomeUrl)
    => LET text == ErrorParam(responses[r][1])
       IN  /\ ~AllLetters(query[r]) => Contains(text, NotAPangram)
           /\ \A p \in PathSet :
                (Returned(r, p) /\ lookup[r][p].result.hasBody
                   /\ parseInt(lookup[r][p].result.syllables) # required_syllables(p))
                => Contains(text, SyllableMessage(p))

C7_FailedLookupRejects ==
  \A r \in Requests : \A p \in PathSet :
    (Returned(r, p) /\ FailedLookup(lookup[r][p].result))
    => /\ sent[r][p] = 1
       /\ errors[r][p] # NoError
       /\ ~Accepted(r)
       /\ ~crashed

\* C8 (as claimed): the redirect of a failed save targets '/' with an error
\* message, and the list request that follows it echoes the three values as
\* they were submitted; the redirect of a successful save is '/' alone.
C8_RedirectEchoes ==
  \A r \in Requests :
    responses[r] # <<>> =>
      IF \E p \in PathSet : errors[r][p] # NoError
      THEN /\ TargetsHome(responses[r][1])
           /\ ErrorParam(responses[r][1]) = ErrorText(errors[r])
           /\ (view.page = "home" /\ view.via = r) =>
                /\ view.line1_5 = query[r].line1_5
                /\ view.line2_7 = query[r].line2_7
                /\ view.line3_5 = query[r].line3_5
      ELSE responses[r][1] = HomeUrl

C9_State ==
  \A x \in store :
    /\ x.id \in Requests
    /\ SameLines(x, query[x.id])
    /\ AllLetters(x)
    /\ \A p \in PathSet :
         /\ Returned(x.id, p)
         /\ IsCount(lookup[x.id][p].result)
         /\ parseInt(lookup[x.id][p].result.syllables) = required_syllables(p)

C9_Step ==
  /\ store \subseteq store'
  /\ view' # view => store' = store

\* C9: the store only grows and a stored record never changes; rendering
\* '/' or '/about' leaves the store as it is; every stored record holds the
\* lines of its submission, covers all 26 letters, and its lookups were
\* answered 5, 7 and 5.
C9_StoreOnlyGrows == [](C9_State) /\ [][C9_Step]_vars

\* C9 witness: two records are stored and the about page was rendered.
C9_Witness == Cardinality(store) = 2 /\ view.page = "about"

\* C10 (as claimed): a request is answered by at most one redirect, issued
\* only when every path of the submission has reported, and a request whose
\* started lookups have all returned, with no insert pending, has its
\* redirect.
C10_ExactlyOneResponse ==
  \A r \in Requests :
    /\ Len(responses[r]) <= 1
    /\ responses[r] # <<>> => total[r] = 0
    /\ ( /\ pc[r] \notin {"idle", "saving", "inserted"}
         /\ \A p \in PathSet : lookup[r][p].state # "out" )
       => Len(responses[r]) = 1

=============================================================================
